---- MODULE Spec2Model ----
(***************************************************************************)
(* Model of leptos_dom/src/attribute.rs: the Attribute enum, its           *)
(* as_value_string resolution, its PartialEq and the IntoAttribute         *)
(* conversions.                                                            *)
(*                                                                         *)
(* Text is a sequence of one-character strings.  A closure is represented  *)
(* by the data it captures: a thunk (Rc<dyn Fn() -> Attribute>) is either  *)
(*   const  - a closure returning a fixed Attribute,                       *)
(*   cycle  - a closure returning an Fn over the next closure of a ring    *)
(*            (ring of length 1: a thunk that returns itself),             *)
(*   conv   - the closure built by the blanket impl of IntoAttribute,      *)
(*            capturing the host callable and the scope.                   *)
(***************************************************************************)
EXTENDS Integers, Sequences, FiniteSets, TLC

(* ---------------------------- bounds ----------------------------------- *)
MaxLen == 1
MaxNest == 2
MaxCycle == 2
MaxInt == 10
NumScopes == 2

MaxCalls == MaxNest + 2

Chars == {"x", "\""}
Names == {<<"a">>, <<"i", "d">>}
Scopes == 1..NumScopes
Ints == (-MaxInt..MaxInt) \cup {42}

RECURSIVE TextsOfLen(_)
TextsOfLen(n) ==
  IF n = 0 THEN {<<>>}
  ELSE {Append(t, c) : t \in TextsOfLen(n - 1), c \in Chars}

Texts == UNION {TextsOfLen(n) : n \in 0..MaxLen}

(* ------------------------ Option<T> and results ------------------------ *)
None == [some |-> FALSE]
Some(v) == [some |-> TRUE, v |-> v]
OptionOf(S) == {None} \cup {Some(v) : v \in S}

(* ------------------------------ Attribute ------------------------------ *)
AString(s) == [tag |-> "String", value |-> s]
AFn(f) == [tag |-> "Fn", f |-> f]
AOption(o) == [tag |-> "Option", value |-> o]
ABool(b) == [tag |-> "Bool", include |-> b]

ConstThunk(a) == [kind |-> "const", ret |-> a]
CycleThunk(k, len) == [kind |-> "cycle", k |-> k, len |-> len]
ConvThunk(F, cx) == [kind |-> "conv", fn |-> F, cx |-> cx]

GroundAttrs ==
  {AString(s) : s \in Texts} \cup {AOption(o) : o \in OptionOf(Texts)}
    \cup {ABool(b) : b \in BOOLEAN}

CycleAttrs ==
  UNION {{AFn(CycleThunk(k, len)) : k \in 0..(len - 1)} : len \in 1..MaxCycle}

RECURSIVE AttrsOfNest(_)
AttrsOfNest(d) ==
  IF d = 0 THEN GroundAttrs \cup CycleAttrs
  ELSE AttrsOfNest(0) \cup {AFn(ConstThunk(a)) : a \in AttrsOfNest(d - 1)}

DirectAttrs == AttrsOfNest(MaxNest)

(* --------------------------- host values ------------------------------- *)
HText(s) == [ty |-> "text", s |-> s]
HBool(b) == [ty |-> "bool", b |-> b]
HOptText(o) == [ty |-> "opttext", o |-> o]
HInt(n) == [ty |-> "int", n |-> n]
HOptInt(o) == [ty |-> "optint", on |-> o]
HChar(c) == [ty |-> "char", c |-> c]
HOptChar(o) == [ty |-> "optchar", oc |-> o]
HCallable(u) == [ty |-> "callable", ret |-> u]

GroundHosts ==
  {HText(s) : s \in Texts} \cup {HBool(b) : b \in BOOLEAN}
    \cup {HOptText(o) : o \in OptionOf(Texts)}
    \cup {HInt(n) : n \in Ints} \cup {HOptInt(o) : o \in OptionOf(Ints)}
    \cup {HChar(c) : c \in Chars} \cup {HOptChar(o) : o \in OptionOf(Chars)}

RECURSIVE HostsOfNest(_)
HostsOfNest(d) ==
  IF d = 0 THEN GroundHosts
  ELSE GroundHosts \cup {HCallable(u) : u \in HostsOfNest(d - 1)}

Hosts == HostsOfNest(MaxNest)

(* ------------------------ text of a number ----------------------------- *)
DigitChar(d) == <<"0", "1", "2", "3", "4", "5", "6", "7", "8", "9">>[d + 1]

RECURSIVE Digits(_)
Digits(n) ==
  IF n < 10 THEN <<DigitChar(n)>>
  ELSE Digits(n \div 10) \o <<DigitChar(n % 10)>>

(* a variant that loses the sign *)
IntToString_NoSign(n) == Digits(IF n < 0 THEN -n ELSE n)

IntToString(n) == IF n < 0 THEN <<"-">> \o Digits(-n) ELSE Digits(n)

CharToString(c) == <<c>>

(* --------------------- as_value_string: the arms ----------------------- *)
FormatPair(attr_name, value) == attr_name \o <<"=", "\"">> \o value \o <<"\"">>

(* a variant that escapes the double quote of the value *)
EscapeQuotes(value) ==
  LET RECURSIVE Esc(_)
      Esc(t) == IF t = <<>> THEN <<>>
                ELSE (IF Head(t) = "\"" THEN <<"\\", "\"">> ELSE <<Head(t)>>)
                       \o Esc(Tail(t))
  IN Esc(value)

StringArm_Escaped(value, attr_name) ==
  FormatPair(attr_name, EscapeQuotes(value))

StringArm(value, attr_name) == FormatPair(attr_name, value)

(* a variant that takes the default of a missing value before formatting *)
OptionArm_Default(value, attr_name) ==
  FormatPair(attr_name, IF value.some THEN value.v ELSE <<>>)

OptionArm(value, attr_name) ==
  IF value.some THEN FormatPair(attr_name, value.v) ELSE <<>>

(* a variant that renders a true flag with a value *)
BoolArm_Valued(include, attr_name) ==
  IF include THEN FormatPair(attr_name, <<"t", "r", "u", "e">>) ELSE <<>>

BoolArm(include, attr_name) == IF include THEN attr_name ELSE <<>>

(* the three arms of the match that return at once *)
GroundArms(a, attr_name) ==
  CASE a.tag = "String" -> StringArm(a.value, attr_name)
    [] a.tag = "Option" -> OptionArm(a.value, attr_name)
    [] a.tag = "Bool" -> BoolArm(a.include, attr_name)

(* ------------------------------ PartialEq ------------------------------ *)
(* a variant that compares two Fn by the identity of their thunk *)
AttrEq_PtrEq(l, r) ==
  CASE l.tag = "String" /\ r.tag = "String" -> l.value = r.value
    [] l.tag = "Fn" /\ r.tag = "Fn" -> l.f = r.f
    [] l.tag = "Option" /\ r.tag = "Option" -> l.value = r.value
    [] l.tag = "Bool" /\ r.tag = "Bool" -> l.include = r.include
    [] OTHER -> FALSE

AttrEq(l, r) ==
  CASE l.tag = "String" /\ r.tag = "String" -> l.value = r.value
    [] l.tag = "Fn" /\ r.tag = "Fn" -> FALSE
    [] l.tag = "Option" /\ r.tag = "Option" -> l.value = r.value
    [] l.tag = "Bool" /\ r.tag = "Bool" -> l.include = r.include
    [] OTHER -> FALSE

(* ---------------------------- IntoAttribute ---------------------------- *)
(* Each conversion returns the Attribute and the host callables it called. *)
(* self.map(|n| n.to_string()) *)
MapIntToString(o) == IF o.some THEN Some(IntToString(o.v)) ELSE None
MapCharToString(o) == IF o.some THEN Some(CharToString(o.v)) ELSE None

(* a variant that runs the callable once while converting it *)
FnIntoAttribute_Eager(F, cx) ==
  [attr |-> AFn(ConvThunk(F, cx)), called |-> <<F>>]

FnIntoAttribute(F, cx) == [attr |-> AFn(ConvThunk(F, cx)), called |-> <<>>]

IntoAttribute(h, cx) ==
  CASE h.ty = "text" -> [attr |-> AString(h.s), called |-> <<>>]
    [] h.ty = "bool" -> [attr |-> ABool(h.b), called |-> <<>>]
    [] h.ty = "opttext" -> [attr |-> AOption(h.o), called |-> <<>>]
    [] h.ty = "int" -> [attr |-> AString(IntToString(h.n)), called |-> <<>>]
    [] h.ty = "optint" ->
         [attr |-> AOption(MapIntToString(h.on)), called |-> <<>>]
    [] h.ty = "char" -> [attr |-> AString(CharToString(h.c)), called |-> <<>>]
    [] h.ty = "optchar" ->
         [attr |-> AOption(MapCharToString(h.oc)), called |-> <<>>]
    [] h.ty = "callable" -> FnIntoAttribute(h, cx)

(* a variant of the stored closure that turns a missing value into "" *)
ConvThunkBody_DropNone(F, cx) ==
  LET r == IntoAttribute(F.ret, cx)
      a == IF r.attr.tag = "Option" /\ ~r.attr.value.some
           THEN AString(<<>>) ELSE r.attr
  IN [ret |-> a, called |-> <<F>> \o r.called]

(* The body of the closure stored by the blanket impl:                     *)
(*   move || (self)().into_attribute(cx)                                   *)
ConvThunkBody(F, cx) ==
  LET r == IntoAttribute(F.ret, cx)
  IN [ret |-> r.attr, called |-> <<F>> \o r.called]

(* f() for a thunk f *)
Invoke(f) ==
  CASE f.kind = "const" -> [ret |-> f.ret, called |-> <<>>]
    [] f.kind = "cycle" ->
         [ret |-> AFn(CycleThunk((f.k + 1) % f.len, f.len)), called |-> <<>>]
    [] f.kind = "conv" -> ConvThunkBody(f.fn, f.cx)

(* variants of the Fn arm: one stores the first result back into self, one *)
(* never loops and leaves the unwinding to the recursive call, one stops   *)
(* at a thunk that hands back its own Fn                                   *)
FirstCall_Memo(s) ==
  LET r == Invoke(s.f)
  IN [self |-> r.ret, value |-> r.ret, called |-> r.called]

ContinueLoop_Never(value) == FALSE

LoopBody_Guard(value) ==
  LET r == Invoke(value.f)
  IN IF r.ret = value THEN [ret |-> AOption(None), called |-> r.called] ELSE r

(* --------------------- as_value_string: the Fn arm --------------------- *)
(* Attribute::Fn(f) => { let mut value = f(); ... : self is only borrowed  *)
FirstCall(s) ==
  LET r == Invoke(s.f)
  IN [self |-> s, value |-> r.ret, called |-> r.called]

(* while let Attribute::Fn(f) = value *)
ContinueLoop(value) == value.tag = "Fn"

(* value = f(); *)
LoopBody(value) == Invoke(value.f)

(* ------------------------------- state --------------------------------- *)
VARIABLES
  pc,         \* "idle", "eq", "match", "loop", "done"
  self,       \* the Attribute under test
  host,       \* the host value self was converted from, None if built directly
  other,      \* right operand of the last ==, None outside "eq"
  eqres,      \* result of the last ==
  attr_name,  \* argument of the running as_value_string
  cur,        \* self of the innermost as_value_string frame
  value,      \* the local `value` of the innermost frame
  out,        \* returned String, None while running
  calls,      \* thunk invocations of the running resolution
  invoked,    \* the thunks invoked, in order
  depth,      \* as_value_string frames entered by the running resolution
  fcalled,    \* host callables called by the last operation
  prev        \* last finished resolution of self, None if there is none

vars == <<pc, self, host, other, eqres, attr_name, cur, value, out, calls,
          invoked, depth, fcalled, prev>>

NoAttr == [tag |-> "none"]
NoName == <<>>

Bump(n) == IF n < MaxCalls THEN n + 1 ELSE n
Log(log, e) == IF Len(log) < MaxCalls THEN Append(log, e) ELSE log
LogAll(log, es) == IF Len(log) + Len(es) <= MaxCalls THEN log \o es ELSE log

Init ==
  /\ pc = "idle"
  /\ self \in DirectAttrs
  /\ host = None
  /\ other = NoAttr
  /\ eqres = FALSE
  /\ attr_name = NoName
  /\ cur = NoAttr
  /\ value = NoAttr
  /\ out = None
  /\ calls = 0
  /\ invoked = <<>>
  /\ depth = 0
  /\ fcalled = <<>>
  /\ prev = None

Idle ==
  /\ other' = NoAttr
  /\ eqres' = FALSE
  /\ attr_name' = NoName
  /\ cur' = NoAttr
  /\ value' = NoAttr
  /\ out' = None
  /\ calls' = 0
  /\ invoked' = <<>>
  /\ depth' = 0

(* Attribute::String(..), Attribute::Option(..), Attribute::Bool(..),      *)
(* Attribute::Fn(Rc::new(..)) written by hand                              *)
Construct ==
  /\ pc = "idle"
  /\ \E a \in DirectAttrs : self' = a
  /\ host' = None
  /\ fcalled' = <<>>
  /\ prev' = None
  /\ Idle
  /\ UNCHANGED pc

(* h.into_attribute(cx) *)
Convert ==
  /\ pc = "idle"
  /\ \E h \in Hosts, cx \in Scopes :
       LET r == IntoAttribute(h, cx)
       IN /\ self' = r.attr
          /\ host' = Some([h |-> h, cx |-> cx])
          /\ fcalled' = r.called
  /\ prev' = None
  /\ Idle
  /\ UNCHANGED pc

(* self == y, y built by hand or a clone of self *)
Eq ==
  /\ pc = "idle"
  /\ \E y \in DirectAttrs \cup {self} :
       /\ other' = y
       /\ eqres' = AttrEq(self, y)
  /\ pc' = "eq"
  /\ UNCHANGED <<self, host, attr_name, cur, value, out, calls, invoked,
                 depth, fcalled, prev>>

EqReturn ==
  /\ pc = "eq"
  /\ pc' = "idle"
  /\ Idle
  /\ UNCHANGED <<self, host, fcalled, prev>>

(* self.as_value_string(n) is entered *)
Call ==
  /\ pc = "idle"
  /\ \E n \in Names : attr_name' = n
  /\ cur' = self
  /\ depth' = 1
  /\ pc' = "match"
  /\ fcalled' = <<>>
  /\ UNCHANGED <<self, host, other, eqres, value, out, calls, invoked, prev>>

(* match self { String, Option, Bool arms: format and return } *)
MatchGround ==
  /\ pc = "match"
  /\ cur.tag # "Fn"
  /\ out' = Some(GroundArms(cur, attr_name))
  /\ pc' = "done"
  /\ UNCHANGED <<self, host, other, eqres, attr_name, cur, value, calls,
                 invoked, depth, fcalled, prev>>

(* match self { Attribute::Fn(f) => { let mut value = f(); *)
MatchFn ==
  /\ pc = "match"
  /\ cur.tag = "Fn"
  /\ LET r == FirstCall(cur)
     IN /\ cur' = r.self
        /\ self' = IF depth = 1 THEN r.self ELSE self
        /\ value' = r.value
        /\ fcalled' = LogAll(fcalled, r.called)
  /\ calls' = Bump(calls)
  /\ invoked' = Log(invoked, cur.f)
  /\ pc' = "loop"
  /\ UNCHANGED <<host, other, eqres, attr_name, out, depth, prev>>

(* while let Attribute::Fn(f) = value { value = f(); } *)
Loop ==
  /\ pc = "loop"
  /\ ContinueLoop(value)
  /\ LET r == LoopBody(value)
     IN /\ value' = r.ret
        /\ fcalled' = LogAll(fcalled, r.called)
  /\ calls' = Bump(calls)
  /\ invoked' = Log(invoked, value.f)
  /\ UNCHANGED <<pc, self, host, other, eqres, attr_name, cur, out, depth,
                 prev>>

(* the loop is left: value.as_value_string(attr_name) is entered *)
Recurse ==
  /\ pc = "loop"
  /\ ~ContinueLoop(value)
  /\ cur' = value
  /\ value' = NoAttr
  /\ depth' = Bump(depth)
  /\ pc' = "match"
  /\ UNCHANGED <<self, host, other, eqres, attr_name, out, calls, invoked,
                 fcalled, prev>>

(* the String is handed to the caller *)
Return ==
  /\ pc = "done"
  /\ prev' = Some([attr |-> self, attr_name |-> attr_name, out |-> out.v,
                   calls |-> calls])
  /\ pc' = "idle"
  /\ Idle
  /\ UNCHANGED <<self, host, fcalled>>

Next ==
  \/ Construct
  \/ Convert
  \/ Eq
  \/ EqReturn
  \/ Call
  \/ MatchGround
  \/ MatchFn
  \/ Loop
  \/ Recurse
  \/ Return

Spec == Init /\ [][Next]_vars

(* as_value_string runs to completion once entered: nothing suspends it    *)
FairSpec ==
  Spec /\ WF_vars(MatchGround) /\ WF_vars(MatchFn) /\ WF_vars(Loop)
       /\ WF_vars(Recurse)

TypeOK ==
  /\ pc \in {"idle", "eq", "match", "loop", "done"}
  /\ calls \in 0..MaxCalls
  /\ depth \in 0..MaxCalls
  /\ eqres \in BOOLEAN

(* ======================= chains of thunks ============================== *)
(* What a thunk hands back, read off the data the closure captures.        *)
HostEnd(h) ==
  LET RECURSIVE End(_)
      End(u) == IF u.ty = "callable" THEN End(u.ret) ELSE u
  IN End(h)

HostLen(h) ==
  LET RECURSIVE Cnt(_)
      Cnt(u) == IF u.ty = "callable" THEN 1 + Cnt(u.ret) ELSE 0
  IN Cnt(h)

RECURSIVE Finite(_)
Finite(a) ==
  IF a.tag # "Fn" THEN TRUE
  ELSE CASE a.f.kind = "const" -> Finite(a.f.ret)
         [] a.f.kind = "cycle" -> FALSE
         [] a.f.kind = "conv" -> TRUE

(* the non-Fn value T a finite chain ends in *)
RECURSIVE ChainEnd(_)
ChainEnd(a) ==
  IF a.tag # "Fn" THEN a
  ELSE CASE a.f.kind = "const" -> ChainEnd(a.f.ret)
         [] a.f.kind = "conv" -> IntoAttribute(HostEnd(a.f.fn), a.f.cx).attr

(* the thunks of a finite chain, outermost first *)
RECURSIVE ChainThunks(_)
ChainThunks(a) ==
  IF a.tag # "Fn" THEN <<>>
  ELSE CASE a.f.kind = "const" -> <<a.f>> \o ChainThunks(a.f.ret)
         [] a.f.kind = "conv" ->
              <<a.f>> \o (IF a.f.fn.ret.ty = "callable"
                          THEN ChainThunks(AFn(ConvThunk(a.f.fn.ret, a.f.cx)))
                          ELSE <<>>)

(* name="text", character by character *)
IsNameValue(t, n, v) ==
  /\ Len(t) = Len(n) + Len(v) + 3
  /\ SubSeq(t, 1, Len(n)) = n
  /\ t[Len(n) + 1] = "="
  /\ t[Len(n) + 2] = "\""
  /\ SubSeq(t, Len(n) + 3, Len(n) + 2 + Len(v)) = v
  /\ t[Len(t)] = "\""

(* ============================== claims ================================= *)

(* C1: nesting law. as_value_string on an Fn whose thunks return Fn, ...,  *)
(* and finally a non-Fn value T returns exactly the string that            *)
(* T.as_value_string(name) returns when called on T directly.              *)
C1_NestingLaw ==
  (pc = "done" /\ self.tag = "Fn" /\ Finite(self))
    => out = Some(GroundArms(ChainEnd(self), attr_name))

C1_Witness ==
  /\ pc = "done"
  /\ self.tag = "Fn"
  /\ calls = 2
  /\ ChainEnd(self) = AOption(None)
  /\ out = Some(<<>>)

(* C2: String(s).as_value_string(a) is a, then =", then s verbatim, then   *)
(* ": nothing in s is escaped, and the result is never empty.              *)
C2_StringVerbatim ==
  (pc = "done" /\ self.tag = "String")
    => /\ out.some
       /\ IsNameValue(out.v, attr_name, self.value)
       /\ out.v # <<>>

C2_Witness ==
  /\ pc = "done"
  /\ self = AString(<<"\"">>)
  /\ attr_name = <<"a">>
  /\ out = Some(<<"a", "=", "\"", "\"", "\"">>)

(* C3: Option(Some(v)).as_value_string(a) is a="v", Option(None) gives the *)
(* empty string; Option(Some("")) gives a="" and so differs from None.     *)
C3_OptionRule ==
  (pc = "done" /\ self.tag = "Option")
    => /\ out.some
       /\ self.value.some => /\ IsNameValue(out.v, attr_name, self.value.v)
                             /\ out.v # <<>>
       /\ ~self.value.some => out.v = <<>>

C3_Witness ==
  /\ pc = "done"
  /\ self = AOption(Some(<<>>))
  /\ attr_name = <<"a">>
  /\ out = Some(<<"a", "=", "\"", "\"">>)

(* C4: Bool(b).as_value_string(a) is the bare name a when b is true and    *)
(* the empty string when b is false.                                       *)
C4_BoolRule ==
  (pc = "done" /\ self.tag = "Bool")
    => out = Some(IF self.include THEN attr_name ELSE <<>>)

C4_Witness ==
  /\ pc = "done"
  /\ self = ABool(TRUE)
  /\ out = Some(<<"i", "d">>)

(* C5: x == y holds exactly when x and y are the same non-Fn variant with  *)
(* equal payloads; every comparison with an Fn is false, an Fn against     *)
(* itself or its clone included.                                           *)
C5_EqualityLaw ==
  pc = "eq"
    => eqres = (/\ self.tag = other.tag
                /\ self.tag \in {"String", "Option", "Bool"}
                /\ self = other)

C5_Witness ==
  /\ pc = "eq"
  /\ self.tag = "Fn"
  /\ other = self
  /\ eqres = FALSE

(* C6: converting a callable F yields Fn without calling F; each later     *)
(* invocation of the stored thunk calls F once and returns F's result      *)
(* converted with the same scope, so a callable returning a callable gives *)
(* an Fn whose thunk returns an Fn, and as_value_string gives the text of  *)
(* the innermost ground value.                                             *)
Invokee == IF pc = "match" THEN cur.f ELSE value.f

C6_AtConversion ==
  (host.some /\ host.v.h.ty = "callable")
    => /\ self = AFn(ConvThunk(host.v.h, host.v.cx))
       /\ (pc \in {"idle", "eq"} /\ ~prev.some) => fcalled = <<>>
       /\ pc = "done" =>
            /\ out = Some(GroundArms(
                       IntoAttribute(HostEnd(host.v.h), host.v.cx).attr,
                       attr_name))
            /\ Len(fcalled) = HostLen(host.v.h)

C6_AtInvocation ==
  (calls' = calls + 1 /\ Invokee.kind = "conv")
    => /\ fcalled' = Append(fcalled, Invokee.fn)
       /\ value' = IntoAttribute(Invokee.fn.ret, Invokee.cx).attr
       /\ Invokee.fn.ret.ty = "callable"
            => value' = AFn(ConvThunk(Invokee.fn.ret, Invokee.cx))

C6_CallableConversion == []C6_AtConversion /\ [][C6_AtInvocation]_vars

C6_Witness ==
  /\ pc = "done"
  /\ host.some
  /\ host.v.h = HCallable(HCallable(HInt(42)))
  /\ Len(fcalled) = 2
  /\ out = Some(<<"a", "=", "\"", "4", "2", "\"">>)

(* C7: conversion of every non-callable built-in type is total and never   *)
(* yields Fn: text gives String, a boolean Bool, optional text Option, a   *)
(* number or character String of its canonical text (42 gives "42"), an    *)
(* optional number or character Option of that text, and None gives        *)
(* Option(None), which resolves to the empty string.                       *)
DigitVal(c) == CHOOSE d \in 0..9 : DigitChar(d) = c

IsDigit(c) == \E d \in 0..9 : DigitChar(d) = c

RECURSIVE ParseNat(_)
ParseNat(t) ==
  IF Len(t) = 1 THEN DigitVal(t[1])
  ELSE 10 * ParseNat(SubSeq(t, 1, Len(t) - 1)) + DigitVal(t[Len(t)])

(* t is the decimal text of n: an optional sign, no leading zero *)
IsDecimalOf(t, n) ==
  LET neg == Len(t) > 0 /\ t[1] = "-"
      digits == IF neg THEN Tail(t) ELSE t
  IN /\ Len(digits) > 0
     /\ \A i \in 1..Len(digits) : IsDigit(digits[i])
     /\ Len(digits) > 1 => digits[1] # "0"
     /\ neg <=> n < 0
     /\ ParseNat(digits) = (IF n < 0 THEN -n ELSE n)

C7_GroundConversion ==
  (host.some /\ host.v.h.ty # "callable")
    => LET h == host.v.h
       IN /\ self.tag # "Fn"
          /\ fcalled = <<>>
          /\ h.ty = "text" => self = AString(h.s)
          /\ h.ty = "bool" => self = ABool(h.b)
          /\ h.ty = "opttext" => self = AOption(h.o)
          /\ h.ty = "int" =>
               /\ self.tag = "String"
               /\ IsDecimalOf(self.value, h.n)
               /\ h.n = 42 => self = AString(<<"4", "2">>)
          /\ h.ty = "char" => self = AString(<<h.c>>)
          /\ h.ty = "optint" =>
               /\ self.tag = "Option"
               /\ self.value.some = h.on.some
               /\ h.on.some => IsDecimalOf(self.value.v, h.on.v)
          /\ h.ty = "optchar" =>
               /\ self.tag = "Option"
               /\ self.value.some = h.oc.some
               /\ h.oc.some => self.value.v = <<h.oc.v>>
          /\ (h.ty \in {"opttext", "optint", "optchar"} /\ self = AOption(None)
              /\ pc = "done") => out = Some(<<>>)

C7_Witness ==
  /\ host.some
  /\ host.v.h = HOptInt(Some(-10))
  /\ self = AOption(Some(<<"-", "1", "0">>))
  /\ pc = "done"
  /\ out = Some(<<"a", "=", "\"", "-", "1", "0", "\"">>)

(* C8: as_value_string never changes the Attribute it is called on and     *)
(* caches nothing: a second resolution with the same name gives the same   *)
(* text, and every resolution of an Fn invokes its thunk again.            *)
C8_SelfKept == pc # "idle" => self' = self

C8_Again ==
  (pc = "done" /\ prev.some)
    => /\ prev.v.attr = self
       /\ prev.v.attr_name = attr_name => out.v = prev.v.out
       /\ calls = prev.v.calls
       /\ self.tag = "Fn" => calls >= 1

C8_NoMutationNoCache == [][C8_SelfKept]_vars /\ []C8_Again

C8_Witness ==
  /\ pc = "done"
  /\ prev.some
  /\ prev.v.attr_name = attr_name
  /\ self.tag = "Fn"
  /\ calls = 2

(* C9: on a chain that reaches a non-Fn value after n >= 1 invocations     *)
(* as_value_string terminates, invokes exactly the n thunks of the chain,  *)
(* outermost first, and makes one recursive call, on a non-Fn value: the   *)
(* call depth does not grow with n.                                        *)
C9_Counts ==
  /\ depth <= 2
  /\ (pc = "match" /\ depth = 2) => cur.tag # "Fn"
  /\ (pc = "done" /\ self.tag = "Fn" /\ Finite(self))
       => /\ calls = Len(ChainThunks(self))
          /\ invoked = ChainThunks(self)
          /\ depth = 2

C9_FiniteChainTerminates ==
  /\ []C9_Counts
  /\ (pc = "match" /\ self.tag = "Fn" /\ Finite(self)) ~> (pc = "done")

C9_Witness ==
  /\ pc = "done"
  /\ self.tag = "Fn"
  /\ calls = MaxNest
  /\ Len(invoked) = MaxNest
  /\ depth = 2

(* C10: when every thunk of the chain returns another Fn, as_value_string  *)
(* never returns and reports nothing: it goes on invoking thunks, with no  *)
(* depth guard, and no string comes out.                                   *)
C10_Running ==
  (~Finite(self) /\ pc \notin {"idle", "eq"})
    => /\ pc \in {"match", "loop"}
       /\ out = None
       /\ depth = 1
       /\ pc = "loop" => ContinueLoop(value)

C10_EndlessChainDiverges ==
  /\ []C10_Running
  /\ (~Finite(self) /\ pc = "match") ~> (calls = MaxCalls)
  /\ (~Finite(self) /\ pc = "match") ~> [](pc = "loop")

C10_Witness ==
  /\ pc = "loop"
  /\ self = AFn(CycleThunk(0, 1))
  /\ value = self
  /\ calls = MaxCalls
====
